---- MODULE Spec2Model ----
(***************************************************************************)
(* Model of the hash-table symbol table of symtablehash.c.                 *)
(*                                                                         *)
(* The heap is explicit: the store record, the bucket arrays, the Bindings *)
(* and the key copies are blocks at addresses, so that ownership, leaks    *)
(* and the pointer structure of the chains are part of the state.  Every   *)
(* operation of symtable.h is one action that runs the whole C function,   *)
(* the expansion SymTable_put may trigger included.  An allocation may     *)
(* fail: the input failAt of an action is the ordinal, within that call,   *)
(* of the allocation that returns NULL (0: none fails).                    *)
(*                                                                         *)
(* SIZES is scaled down (the source has 509 .. 65521) so that the table    *)
(* crosses every capacity tier with a handful of keys; the code only ever  *)
(* uses SIZES through SIZES[bucketCountOrder] and the comparison with      *)
(* MAX_SIZE, which the scaling keeps.                                      *)
(***************************************************************************)
EXTENDS Integers, Sequences, FiniteSets, TLC

VARIABLES heap, oSymTable, charSigned, last

vars == <<heap, oSymTable, charSigned, last>>

----------------------------------------------------------------------------
(* Bounds of the model *)

\* number of distinct keys the client uses
NumKeys == 3
\* number of distinct non-NULL value references the client uses
NumValues == 1

(* Program constants *)

NULL == 0

SIZES == <<1, 2>>

MAX_SIZE == 2

HASH_MULTIPLIER == 65599

\* sizeof(size_t), in bytes
WordBytes == 8

\* SIZES[i] of the C source (0-based)
SizeAt(i) == SIZES[i + 1]

----------------------------------------------------------------------------
(* The client's keys and values *)

\* Keys are C strings: char arrays that end with the terminator 0.  The
\* pool has bytes below and above 0x80, keys of length 0, 1 and 2, and keys
\* that collide in one capacity and not in another.
KeyPool == << <<97, 0>>, <<98, 0>>, <<201, 97, 0>>, <<100, 0>>, <<0>>,
              <<97, 98, 0>>, <<102, 0>> >>

Keys == {KeyPool[i] : i \in 1..NumKeys}

\* A value is an opaque pointer; the client may store NULL.
Values == 0..NumValues

\* The referents of the non-NULL values: blocks the client allocated and
\* owns.  They are not store blocks and their addresses are the client's.
Referents == Values \ {NULL}

----------------------------------------------------------------------------
(* The heap *)

\* heap.tabs  : address -> struct SymTable
\* heap.arrs  : address -> array of struct Binding * (a sequence, slot i of
\*              the C array is element i + 1)
\* heap.binds : address -> struct Binding
\* heap.strs  : address -> char array
\* heap.fault : TRUE once free() was given an address that is not allocated
\* heap.referents : the client's value referents that are allocated
\* The heap before the store is constructed: no block of the store, the
\* client's referents allocated.
EmptyHeap == [tabs |-> <<>>, arrs |-> <<>>, binds |-> <<>>, strs |-> <<>>,
              fault |-> FALSE, referents |-> Referents]

Used(h) == DOMAIN h.tabs \cup DOMAIN h.arrs \cup DOMAIN h.binds \cup DOMAIN h.strs

\* The address malloc/calloc returns when it succeeds.  The program never
\* compares or computes with addresses, so the allocator's choice among the
\* free addresses is fixed to the lowest one.
Malloc(h) == CHOOSE a \in 1..(Cardinality(Used(h)) + 1) :
                /\ a \notin Used(h)
                /\ \A b \in 1..(a - 1) : b \in Used(h)

\* f with the pair a :> v added or overwritten
Store(f, a, v) == [x \in DOMAIN f \cup {a} |-> IF x = a THEN v ELSE f[x]]

\* f without a
Drop(f, a) == [x \in DOMAIN f \ {a} |-> f[x]]

\* free(p) of a block of each kind; freeing what is not allocated is a fault
FreeBinding(h, p) ==
  IF p \in DOMAIN h.binds THEN [h EXCEPT !.binds = Drop(h.binds, p)]
  ELSE [h EXCEPT !.fault = TRUE]

FreeString(h, p) ==
  IF p \in DOMAIN h.strs THEN [h EXCEPT !.strs = Drop(h.strs, p)]
  ELSE [h EXCEPT !.fault = TRUE]

FreeArray(h, p) ==
  IF p \in DOMAIN h.arrs THEN [h EXCEPT !.arrs = Drop(h.arrs, p)]
  ELSE [h EXCEPT !.fault = TRUE]

FreeTable(h, p) ==
  IF p \in DOMAIN h.tabs THEN [h EXCEPT !.tabs = Drop(h.tabs, p)]
  ELSE [h EXCEPT !.fault = TRUE]

\* free(p) of a value pointer: free(NULL) does nothing
FreeReferent(h, p) ==
  IF p = NULL THEN h
  ELSE IF p \in h.referents THEN [h EXCEPT !.referents = @ \ {p}]
  ELSE [h EXCEPT !.fault = TRUE]

\* the fields of a Binding that malloc returned and nothing has written yet
UninitBinding == [Key |-> NULL, Value |-> NULL, psNextBinding |-> NULL]

\* calloc(n, sizeof(struct Binding *)): n NULL slots
NullSlots(n) == [i \in 1..n |-> NULL]

----------------------------------------------------------------------------
(* <string.h> *)

RECURSIVE StrLenFrom(_, _)
StrLenFrom(s, u) == IF s[u] = 0 THEN u - 1 ELSE StrLenFrom(s, u + 1)

\* strlen(s): the number of chars before the terminator
strlen(s) == StrLenFrom(s, 1)

RECURSIVE StrCmpFrom(_, _, _)
StrCmpFrom(a, b, u) ==
  IF a[u] # b[u] THEN a[u] - b[u]
  ELSE IF a[u] = 0 THEN 0
  ELSE StrCmpFrom(a, b, u + 1)

\* strcmp(a, b): 0 iff a and b agree up to and including the terminator
strcmp(a, b) == StrCmpFrom(a, b, 1)

\* calloc(n, sizeof(char)): n zero chars
ZeroChars(n) == [i \in 1..n |-> 0]

\* strcpy(dst, src): the chars of src up to and including the terminator
\* overwrite the start of dst
strcpy(dst, src) ==
  [i \in DOMAIN dst |-> IF i <= strlen(src) + 1 THEN src[i] ELSE dst[i]]

----------------------------------------------------------------------------
(* SymTable_hash, in size_t arithmetic *)

\* A size_t is WordBytes base-256 digits, least significant first.
ZeroWord == [i \in 1..WordBytes |-> 0]

\* (size_t) pcKey[u]: a char is converted to size_t.  Where char is signed a
\* byte above 0x7f is negative and the conversion sign-extends it.
CharToSizeT(b, signed) ==
  IF signed /\ b >= 128
    THEN [i \in 1..WordBytes |-> IF i = 1 THEN b ELSE 255]
    ELSE [i \in 1..WordBytes |-> IF i = 1 THEN b ELSE 0]

RECURSIVE MulAddFrom(_, _, _, _, _)
\* digits i.. of w * m + a with incoming carry c; the carry out of the
\* last digit is dropped (wraparound at the width of size_t)
MulAddFrom(w, m, a, i, c) ==
  IF i > WordBytes THEN <<>>
  ELSE LET t == w[i] * m + a[i] + c
       IN  <<t % 256>> \o MulAddFrom(w, m, a, i + 1, t \div 256)

\* the multiply-add with the multiplier 31
HashStep_multiplier31(uHash, b, signed) ==
  MulAddFrom(uHash, 31, CharToSizeT(b, signed), 1, 0)

\* uHash * HASH_MULTIPLIER + (size_t)pcKey[u]
HashStep(uHash, b, signed) ==
  MulAddFrom(uHash, HASH_MULTIPLIER, CharToSizeT(b, signed), 1, 0)

RECURSIVE HashLoop(_, _, _, _)
\* the for loop over the bytes of pcKey up to the terminator
HashLoop(pcKey, u, uHash, signed) ==
  IF pcKey[u] = 0 THEN uHash
  ELSE HashLoop(pcKey, u + 1, HashStep(uHash, pcKey[u], signed), signed)

RECURSIVE WordMod(_, _, _, _)
\* w % n, from the most significant digit down
WordMod(w, n, i, r) ==
  IF i = 0 THEN r ELSE WordMod(w, n, i - 1, (r * 256 + w[i]) % n)

\* the function SymTable_hash computes, on a build where char is signed or
\* not
HashOf(pcKey, uBucketCount, signed) ==
  WordMod(HashLoop(pcKey, 1, ZeroWord, signed), uBucketCount, WordBytes, 0)

\* HashOf of the client's keys and the capacities of SIZES, computed once
HashMemo ==
  [pcKey \in Keys |->
     [i \in DOMAIN SIZES |->
        [signed \in BOOLEAN |-> HashOf(pcKey, SIZES[i], signed)]]]

SymTable_hash(pcKey, uBucketCount) ==
  IF pcKey \in Keys /\ \E i \in DOMAIN SIZES : SIZES[i] = uBucketCount
    THEN HashMemo[pcKey][CHOOSE i \in DOMAIN SIZES : SIZES[i] = uBucketCount]
                 [charSigned]
    ELSE HashOf(pcKey, uBucketCount, charSigned)

----------------------------------------------------------------------------
(* Reading the store *)

\* the bucket count of table t
BucketCount(h, t) == SizeAt(h.tabs[t].bucketCountOrder)

\* (oSymTable->Bindings)[hash]
Bucket(h, t, hash) == h.arrs[h.tabs[t].Bindings][hash + 1]

\* the string a Binding's Key points to
KeyOf(h, p) == h.strs[h.binds[p].Key]

\* the scan that looks at the head of the chain only
FindLoop_headOnly(h, psCurrentBinding, pcKey) ==
  IF psCurrentBinding = NULL THEN NULL
  ELSE IF strcmp(KeyOf(h, psCurrentBinding), pcKey) = 0 THEN psCurrentBinding
  ELSE NULL

RECURSIVE FindLoop(_, _, _)
\* the chain scan of SymTable_find: the first Binding from psCurrentBinding
\* on whose key compares equal to pcKey, or NULL
FindLoop(h, psCurrentBinding, pcKey) ==
  IF psCurrentBinding = NULL THEN NULL
  ELSE IF strcmp(KeyOf(h, psCurrentBinding), pcKey) = 0 THEN psCurrentBinding
  ELSE FindLoop(h, h.binds[psCurrentBinding].psNextBinding, pcKey)

SymTable_find(h, t, pcKey) ==
  FindLoop(h, Bucket(h, t, SymTable_hash(pcKey, BucketCount(h, t))), pcKey)

SymTable_contains(h, t, pcKey) ==
  IF SymTable_find(h, t, pcKey) # NULL THEN 1 ELSE 0

\* the lookup that returns the Key field of the Binding found
SymTable_get_keyField(h, t, pcKey) ==
  LET desiredBinding == SymTable_find(h, t, pcKey)
  IN  IF desiredBinding = NULL THEN NULL ELSE h.binds[desiredBinding].Key

SymTable_get(h, t, pcKey) ==
  LET desiredBinding == SymTable_find(h, t, pcKey)
  IN  IF desiredBinding = NULL THEN NULL ELSE h.binds[desiredBinding].Value

SymTable_getLength(h, t) == h.tabs[t].size

----------------------------------------------------------------------------
(* SymTable_free_Bindings *)

RECURSIVE FreeChain_freesValue(_, _)
\* the inner loop of a store that owns its values: the referent of the value
\* is freed with the key copy and the Binding
FreeChain_freesValue(h, psCurrentBinding) ==
  IF psCurrentBinding = NULL THEN h
  ELSE LET psNextBinding == h.binds[psCurrentBinding].psNextBinding
           h1 == FreeReferent(h, h.binds[psCurrentBinding].Value)
       IN  FreeChain_freesValue(
             FreeBinding(FreeString(h1, h1.binds[psCurrentBinding].Key),
                         psCurrentBinding),
             psNextBinding)

RECURSIVE FreeChain(_, _)
\* the inner loop: free the key copy and the Binding of every Binding of a
\* chain, reading the link before the Binding is freed
FreeChain(h, psCurrentBinding) ==
  IF psCurrentBinding = NULL THEN h
  ELSE LET psNextBinding == h.binds[psCurrentBinding].psNextBinding
       IN  FreeChain(FreeBinding(FreeString(h, h.binds[psCurrentBinding].Key),
                                 psCurrentBinding),
                     psNextBinding)

RECURSIVE FreeBuckets(_, _, _, _)
\* the outer loop over the slots hash .. size - 1 of the array Bindings
FreeBuckets(h, Bindings, size, hash) ==
  IF hash >= size THEN h
  ELSE FreeBuckets(FreeChain(h, h.arrs[Bindings][hash + 1]), Bindings, size,
                   hash + 1)

SymTable_free_Bindings(h, Bindings, size) ==
  FreeArray(FreeBuckets(h, Bindings, size, 0), Bindings)

----------------------------------------------------------------------------
(* SymTable_expand *)

\* whether the table is at the last capacity and expands no further
ExpandAtMax(h, t) == SizeAt(h.tabs[t].bucketCountOrder) = MAX_SIZE

\* the bucket computed with the bucket count of the old array
ExpandHash_old(h, t, pcKey) ==
  SymTable_hash(pcKey, SizeAt(h.tabs[t].bucketCountOrder))

\* the bucket of a key in the array being built
ExpandHash(h, t, pcKey) ==
  SymTable_hash(pcKey, SizeAt(h.tabs[t].bucketCountOrder + 1))

\* the array being built freed without the Bindings linked into it
ExpandAbort_arrayOnly(h, t, newBindings) == FreeArray(h, newBindings)

\* an allocation of the walk failed: the array being built is freed with
\* everything linked into it
ExpandAbort(h, t, newBindings) ==
  SymTable_free_Bindings(h, newBindings,
                         SizeAt(h.tabs[t].bucketCountOrder + 1))

\* the copy linked as the only Binding of its chain
ExpandLink_dropsChain(h, t, newBindings, psCurrentBinding, psNewBinding, keyCopy) ==
  LET newHash == SymTable_hash(KeyOf(h, psCurrentBinding),
                               SizeAt(h.tabs[t].bucketCountOrder + 1))
      copied  == strcpy(h.strs[keyCopy], KeyOf(h, psCurrentBinding))
  IN  [h EXCEPT !.strs[keyCopy] = copied,
                !.binds[psNewBinding] =
                   [Key |-> keyCopy,
                    Value |-> h.binds[psCurrentBinding].Value,
                    psNextBinding |-> NULL],
                !.arrs[newBindings][newHash + 1] = psNewBinding]

\* the copy of Binding psCurrentBinding, at psNewBinding with its key at
\* keyCopy, is linked at the head of its chain of newBindings
ExpandLink(h, t, newBindings, psCurrentBinding, psNewBinding, keyCopy) ==
  LET newHash == ExpandHash(h, t, KeyOf(h, psCurrentBinding))
      copied  == strcpy(h.strs[keyCopy], KeyOf(h, psCurrentBinding))
  IN  [h EXCEPT !.strs[keyCopy] = copied,
                !.binds[psNewBinding] =
                   [Key |-> keyCopy,
                    Value |-> h.binds[psCurrentBinding].Value,
                    psNextBinding |-> h.arrs[newBindings][newHash + 1]],
                !.arrs[newBindings][newHash + 1] = psNewBinding]

RECURSIVE ExpandChain(_, _, _, _, _, _)
\* the inner loop over one old chain; n allocations were made so far in
\* this call.  ok is FALSE when an allocation failed and the walk returned.
ExpandChain(h, t, newBindings, psCurrentBinding, n, failAt) ==
  IF psCurrentBinding = NULL THEN [heap |-> h, n |-> n, ok |-> TRUE]
  ELSE IF failAt = n + 1
    THEN [heap |-> ExpandAbort(h, t, newBindings), n |-> n + 1, ok |-> FALSE]
  ELSE
    LET psNewBinding == Malloc(h)
        h1 == [h EXCEPT !.binds = Store(h.binds, psNewBinding, UninitBinding)]
    IN  IF failAt = n + 2
          THEN [heap |-> ExpandAbort(FreeBinding(h1, psNewBinding), t,
                                     newBindings),
                n |-> n + 2, ok |-> FALSE]
        ELSE
          LET keyCopy == Malloc(h1)
              h2 == [h1 EXCEPT !.strs =
                       Store(h1.strs, keyCopy,
                             ZeroChars(strlen(KeyOf(h1, psCurrentBinding)) + 1))]
              h3 == ExpandLink(h2, t, newBindings, psCurrentBinding,
                               psNewBinding, keyCopy)
          IN  ExpandChain(h3, t, newBindings,
                          h3.binds[psCurrentBinding].psNextBinding, n + 2,
                          failAt)

RECURSIVE ExpandBuckets(_, _, _, _, _, _)
\* the outer loop over the old slots hash .. SIZES[bucketCountOrder] - 1
ExpandBuckets(h, t, newBindings, hash, n, failAt) ==
  IF hash >= BucketCount(h, t) THEN [heap |-> h, n |-> n, ok |-> TRUE]
  ELSE LET c == ExpandChain(h, t, newBindings, Bucket(h, t, hash), n, failAt)
       IN  IF ~c.ok THEN c
           ELSE ExpandBuckets(c.heap, t, newBindings, hash + 1, c.n, failAt)

\* the new table linked and the old one, with its Bindings and their key
\* copies, left allocated
ExpandCommit_keepsOld(h, t, newBindings) ==
  [h EXCEPT !.tabs[t].Bindings = newBindings,
            !.tabs[t].bucketCountOrder = @ + 1]

\* the old table is freed, the new one linked and bucketCountOrder
\* incremented
ExpandCommit(h, t, newBindings) ==
  LET h1 == SymTable_free_Bindings(h, h.tabs[t].Bindings, BucketCount(h, t))
  IN  [h1 EXCEPT !.tabs[t].Bindings = newBindings,
                 !.tabs[t].bucketCountOrder = @ + 1]

\* outcome: "max" (already at the last capacity), "nomem" (an allocation
\* failed, nothing changed) or "ok" (expanded)
SymTable_expand(h, t, n, failAt) ==
  IF ExpandAtMax(h, t) THEN [heap |-> h, outcome |-> "max"]
  ELSE IF failAt = n + 1 THEN [heap |-> h, outcome |-> "nomem"]
  ELSE
    LET newBindings == Malloc(h)
        h1 == [h EXCEPT !.arrs =
                 Store(h.arrs, newBindings,
                       NullSlots(SizeAt(h.tabs[t].bucketCountOrder + 1)))]
        w  == ExpandBuckets(h1, t, newBindings, 0, n + 1, failAt)
    IN  IF ~w.ok THEN [heap |-> w.heap, outcome |-> "nomem"]
        ELSE [heap |-> ExpandCommit(w.heap, t, newBindings), outcome |-> "ok"]

----------------------------------------------------------------------------
(* SymTable_put *)

\* the duplicate check left out
PutIsDuplicate_never(h, t, pcKey) == FALSE

\* the duplicate check
PutIsDuplicate(h, t, pcKey) == SymTable_contains(h, t, pcKey) # 0

\* the new Binding not freed
PutKeyCopyFailed_leak(h, psNewBinding) == h

\* the key copy could not be allocated: the new Binding is freed
PutKeyCopyFailed(h, psNewBinding) == FreeBinding(h, psNewBinding)

\* the expansion put off until the element count exceeds the capacity
PutNeedsExpand_strict(h, t) == h.tabs[t].size > BucketCount(h, t)

\* the expansion of a table that lets the average chain grow to two
PutNeedsExpand_loadTwo(h, t) == h.tabs[t].size >= 2 * BucketCount(h, t)

\* whether the Bindings array has to be expanded before the insertion
PutNeedsExpand(h, t) == h.tabs[t].size >= BucketCount(h, t)

\* the index computed with the initial bucket count
PutHash_initial(h, t, pcKey) == SymTable_hash(pcKey, SizeAt(0))

\* the index of the bucket the new Binding goes to
PutHash(h, t, pcKey) == SymTable_hash(pcKey, BucketCount(h, t))

\* the Binding given the caller's pointer as its key: the block other than
\* the key copy that holds the chars pcKey points to, where the heap shows
\* one
PutLink_aliasKey(h, t, psNewBinding, keyCopy, pcKey, pvValue) ==
  LET hash == SymTable_hash(pcKey, BucketCount(h, t))
      bufs == {a \in DOMAIN h.strs \ {keyCopy} :
                 /\ h.strs[a] = pcKey
                 /\ \A p \in DOMAIN h.binds : h.binds[p].Key # a}
      key  == IF bufs = {} THEN keyCopy ELSE CHOOSE a \in bufs : TRUE
  IN  [h EXCEPT !.binds[psNewBinding] =
                   [Key |-> key, Value |-> pvValue,
                    psNextBinding |-> Bucket(h, t, hash)],
                !.arrs[h.tabs[t].Bindings][hash + 1] = psNewBinding,
                !.tabs[t].size = @ + 1]

\* the Binding linked and not counted
PutLink_noCount(h, t, psNewBinding, keyCopy, pcKey, pvValue) ==
  LET hash == PutHash(h, t, pcKey)
  IN  [h EXCEPT !.binds[psNewBinding] =
                   [Key |-> keyCopy, Value |-> pvValue,
                    psNextBinding |-> Bucket(h, t, hash)],
                !.arrs[h.tabs[t].Bindings][hash + 1] = psNewBinding]

\* the Binding is filled, linked at the front of its bucket and counted
PutLink(h, t, psNewBinding, keyCopy, pcKey, pvValue) ==
  LET hash == PutHash(h, t, pcKey)
  IN  [h EXCEPT !.binds[psNewBinding] =
                   [Key |-> keyCopy, Value |-> pvValue,
                    psNextBinding |-> Bucket(h, t, hash)],
                !.arrs[h.tabs[t].Bindings][hash + 1] = psNewBinding,
                !.tabs[t].size = @ + 1]

\* alloc: "none" (no allocation attempted), "nomem" (the Binding or its key
\* copy could not be allocated) or "ok"; expand: "none" (not attempted) or
\* the outcome of SymTable_expand
SymTable_put(h, t, pcKey, pvValue, failAt) ==
  IF PutIsDuplicate(h, t, pcKey)
    THEN [heap |-> h, ret |-> 0, alloc |-> "none", expand |-> "none"]
  ELSE IF failAt = 1
    THEN [heap |-> h, ret |-> 0, alloc |-> "nomem", expand |-> "none"]
  ELSE
    LET psNewBinding == Malloc(h)
        h1 == [h EXCEPT !.binds = Store(h.binds, psNewBinding, UninitBinding)]
    IN  IF failAt = 2
          THEN [heap |-> PutKeyCopyFailed(h1, psNewBinding), ret |-> 0,
                alloc |-> "nomem", expand |-> "none"]
        ELSE
          LET keyCopy == Malloc(h1)
              h2 == [h1 EXCEPT !.strs =
                       Store(h1.strs, keyCopy,
                             strcpy(ZeroChars(strlen(pcKey) + 1), pcKey))]
              e  == IF PutNeedsExpand(h2, t)
                      THEN SymTable_expand(h2, t, 2, failAt)
                      ELSE [heap |-> h2, outcome |-> "none"]
          IN  [heap |-> PutLink(e.heap, t, psNewBinding, keyCopy, pcKey,
                                pvValue),
               ret |-> 1, alloc |-> "ok", expand |-> e.outcome]

----------------------------------------------------------------------------
(* SymTable_replace *)

\* the new value not stored
ReplaceStore_none(h, desiredBinding, pvValue) == h

\* the new value is stored in the Binding found
ReplaceStore(h, desiredBinding, pvValue) ==
  [h EXCEPT !.binds[desiredBinding].Value = pvValue]

SymTable_replace(h, t, pcKey, pvValue) ==
  LET desiredBinding == SymTable_find(h, t, pcKey)
  IN  IF desiredBinding = NULL THEN [heap |-> h, ret |-> NULL]
      ELSE [heap |-> ReplaceStore(h, desiredBinding, pvValue),
            ret |-> h.binds[desiredBinding].Value]

----------------------------------------------------------------------------
(* SymTable_remove *)

RECURSIVE RemoveLoop(_, _, _, _)
\* the while loop: the Binding with key pcKey and the one before it
RemoveLoop(h, psCurrentBinding, psPreviousBinding, pcKey) ==
  IF psCurrentBinding = NULL
    THEN [cur |-> NULL, prev |-> psPreviousBinding]
  ELSE IF strcmp(KeyOf(h, psCurrentBinding), pcKey) = 0
    THEN [cur |-> psCurrentBinding, prev |-> psPreviousBinding]
  ELSE RemoveLoop(h, h.binds[psCurrentBinding].psNextBinding,
                  psCurrentBinding, pcKey)

\* the chain cut at the Binding: the link to it set to NULL
RemoveUnlink_dropsRest(h, t, hash, psCurrentBinding, psPreviousBinding) ==
  IF psPreviousBinding = NULL
    THEN [h EXCEPT !.arrs[h.tabs[t].Bindings][hash + 1] = NULL]
    ELSE [h EXCEPT !.binds[psPreviousBinding].psNextBinding = NULL]

\* the Binding is spliced out of its chain
RemoveUnlink(h, t, hash, psCurrentBinding, psPreviousBinding) ==
  IF psPreviousBinding = NULL
    THEN [h EXCEPT !.arrs[h.tabs[t].Bindings][hash + 1] =
                      h.binds[psCurrentBinding].psNextBinding]
    ELSE [h EXCEPT !.binds[psPreviousBinding].psNextBinding =
                      h.binds[psCurrentBinding].psNextBinding]

\* the table taken back one tier when a remove leaves it empty, the array
\* kept
RemoveRelease_shrinks(h, t, psCurrentBinding) ==
  LET h1 == FreeBinding(FreeString(h, h.binds[psCurrentBinding].Key),
                        psCurrentBinding)
  IN  [h1 EXCEPT !.tabs[t].size = @ - 1,
                 !.tabs[t].bucketCountOrder =
                    IF h.tabs[t].size = 1 /\ @ > 0 THEN @ - 1 ELSE @]

\* the key copy and the Binding freed, the size left as it was
RemoveRelease_noCount(h, t, psCurrentBinding) ==
  FreeBinding(FreeString(h, h.binds[psCurrentBinding].Key), psCurrentBinding)

\* the key copy and the Binding are freed and the size decremented
RemoveRelease(h, t, psCurrentBinding) ==
  LET h1 == FreeBinding(FreeString(h, h.binds[psCurrentBinding].Key),
                        psCurrentBinding)
  IN  [h1 EXCEPT !.tabs[t].size = @ - 1]

SymTable_remove(h, t, pcKey) ==
  LET hash == SymTable_hash(pcKey, BucketCount(h, t))
      f    == RemoveLoop(h, Bucket(h, t, hash), NULL, pcKey)
  IN  IF f.cur = NULL THEN [heap |-> h, ret |-> NULL]
      ELSE [heap |-> RemoveRelease(RemoveUnlink(h, t, hash, f.cur, f.prev),
                                   t, f.cur),
            ret |-> h.binds[f.cur].Value]

----------------------------------------------------------------------------
(* SymTable_map *)

\* one call of pfApply, as the visitor sees it: the string at the key
\* pointer, the value pointer and the extra pointer
Visit(h, psCurrentBinding, pvExtra) ==
  [key |-> KeyOf(h, psCurrentBinding),
   value |-> h.binds[psCurrentBinding].Value,
   extra |-> pvExtra]

\* pfApply called for the head of the chain only
MapChain_headOnly(h, psCurrentBinding, pvExtra) ==
  IF psCurrentBinding = NULL THEN <<>>
  ELSE <<Visit(h, psCurrentBinding, pvExtra)>>

RECURSIVE MapChain(_, _, _)
\* the inner loop: the calls of pfApply for one chain, head to tail
MapChain(h, psCurrentBinding, pvExtra) ==
  IF psCurrentBinding = NULL THEN <<>>
  ELSE <<Visit(h, psCurrentBinding, pvExtra)>>
       \o MapChain(h, h.binds[psCurrentBinding].psNextBinding, pvExtra)

RECURSIVE MapBuckets(_, _, _, _)
\* the outer loop over the slots hash .. SIZES[bucketCountOrder] - 1
MapBuckets(h, t, hash, pvExtra) ==
  IF hash >= BucketCount(h, t) THEN <<>>
  ELSE MapChain(h, Bucket(h, t, hash), pvExtra)
       \o MapBuckets(h, t, hash + 1, pvExtra)

\* the sequence of calls of pfApply that one call of SymTable_map makes
SymTable_map(h, t, pvExtra) == MapBuckets(h, t, 0, pvExtra)

----------------------------------------------------------------------------
(* SymTable_new and SymTable_free *)

\* the constructor that leaves the size as malloc returned it, here 1
SymTable_new_sizeUninit(h, failAt) ==
  IF failAt = 1 THEN [heap |-> h, ret |-> NULL]
  ELSE
    LET t  == Malloc(h)
        h1 == [h EXCEPT !.tabs =
                 Store(h.tabs, t, [Bindings |-> NULL, size |-> 1,
                                   bucketCountOrder |-> 0])]
    IN  IF failAt = 2 THEN [heap |-> FreeTable(h1, t), ret |-> NULL]
        ELSE
          LET b == Malloc(h1)
          IN  [heap |-> [h1 EXCEPT !.arrs = Store(h1.arrs, b,
                                                  NullSlots(SizeAt(0))),
                                   !.tabs[t] = [Bindings |-> b, size |-> 1,
                                                bucketCountOrder |-> 0]],
               ret |-> t]

SymTable_new(h, failAt) ==
  IF failAt = 1 THEN [heap |-> h, ret |-> NULL]
  ELSE
    LET t  == Malloc(h)
        h1 == [h EXCEPT !.tabs =
                 Store(h.tabs, t, [Bindings |-> NULL, size |-> 0,
                                   bucketCountOrder |-> 0])]
    IN  IF failAt = 2 THEN [heap |-> FreeTable(h1, t), ret |-> NULL]
        ELSE
          LET b == Malloc(h1)
          IN  [heap |-> [h1 EXCEPT !.arrs = Store(h1.arrs, b,
                                                  NullSlots(SizeAt(0))),
                                   !.tabs[t] = [Bindings |-> b, size |-> 0,
                                                bucketCountOrder |-> 0]],
               ret |-> t]

SymTable_free(h, t) ==
  FreeTable(SymTable_free_Bindings(h, h.tabs[t].Bindings, BucketCount(h, t)),
            t)

----------------------------------------------------------------------------
(* symtablelist.c: the linked-list implementation of symtable.h *)

(* Its struct SymTable has the fields psFirstBinding and size; its struct  *)
(* Binding is the one of symtablehash.c.  A list store lives in a heap of  *)
(* its own, of the same shape, with no array block.                        *)

List_SymTable_new(h, failAt) ==
  IF failAt = 1 THEN [heap |-> h, ret |-> NULL]
  ELSE LET t == Malloc(h)
       IN  [heap |-> [h EXCEPT !.tabs =
                        Store(h.tabs, t, [psFirstBinding |-> NULL,
                                          size |-> 0])],
            ret |-> t]

RECURSIVE List_FreeChain(_, _)
\* the loop of SymTable_free
List_FreeChain(h, psCurrentBinding) ==
  IF psCurrentBinding = NULL THEN h
  ELSE LET psNextBinding == h.binds[psCurrentBinding].psNextBinding
       IN  List_FreeChain(
             FreeBinding(FreeString(h, h.binds[psCurrentBinding].Key),
                         psCurrentBinding),
             psNextBinding)

List_SymTable_free(h, t) ==
  FreeTable(List_FreeChain(h, h.tabs[t].psFirstBinding), t)

List_SymTable_getLength(h, t) == h.tabs[t].size

\* the scan that looks at the first Binding only
List_FindLoop_headOnly(h, psCurrentBinding, pcKey) ==
  IF psCurrentBinding = NULL THEN NULL
  ELSE IF strcmp(KeyOf(h, psCurrentBinding), pcKey) = 0 THEN psCurrentBinding
  ELSE NULL

RECURSIVE List_FindLoop(_, _, _)
\* the loop of SymTable_find
List_FindLoop(h, psCurrentBinding, pcKey) ==
  IF psCurrentBinding = NULL THEN NULL
  ELSE IF strcmp(KeyOf(h, psCurrentBinding), pcKey) = 0 THEN psCurrentBinding
  ELSE List_FindLoop(h, h.binds[psCurrentBinding].psNextBinding, pcKey)

List_SymTable_find(h, t, pcKey) ==
  List_FindLoop(h, h.tabs[t].psFirstBinding, pcKey)

List_SymTable_contains(h, t, pcKey) ==
  IF List_SymTable_find(h, t, pcKey) # NULL THEN 1 ELSE 0

List_SymTable_get(h, t, pcKey) ==
  LET desiredBinding == List_SymTable_find(h, t, pcKey)
  IN  IF desiredBinding = NULL THEN NULL ELSE h.binds[desiredBinding].Value

List_SymTable_put(h, t, pcKey, pvValue, failAt) ==
  IF List_SymTable_contains(h, t, pcKey) # 0 THEN [heap |-> h, ret |-> 0]
  ELSE IF failAt = 1 THEN [heap |-> h, ret |-> 0]
  ELSE
    LET psNewBinding == Malloc(h)
        h1 == [h EXCEPT !.binds = Store(h.binds, psNewBinding, UninitBinding)]
    IN  IF failAt = 2
          THEN [heap |-> FreeBinding(h1, psNewBinding), ret |-> 0]
        ELSE
          LET keyCopy == Malloc(h1)
              h2 == [h1 EXCEPT !.strs =
                       Store(h1.strs, keyCopy,
                             strcpy(ZeroChars(strlen(pcKey) + 1), pcKey))]
          IN  [heap |-> [h2 EXCEPT !.binds[psNewBinding] =
                                      [Key |-> keyCopy, Value |-> pvValue,
                                       psNextBinding |->
                                         h2.tabs[t].psFirstBinding],
                                   !.tabs[t].psFirstBinding = psNewBinding,
                                   !.tabs[t].size = @ + 1],
               ret |-> 1]

List_SymTable_replace(h, t, pcKey, pvValue) ==
  LET desiredBinding == List_SymTable_find(h, t, pcKey)
  IN  IF desiredBinding = NULL THEN [heap |-> h, ret |-> NULL]
      ELSE [heap |-> [h EXCEPT !.binds[desiredBinding].Value = pvValue],
            ret |-> h.binds[desiredBinding].Value]

RECURSIVE List_RemoveLoop(_, _, _, _)
\* the while loop of SymTable_remove
List_RemoveLoop(h, psCurrentBinding, psPreviousBinding, pcKey) ==
  IF psCurrentBinding = NULL
    THEN [cur |-> NULL, prev |-> psPreviousBinding]
  ELSE IF strcmp(KeyOf(h, psCurrentBinding), pcKey) = 0
    THEN [cur |-> psCurrentBinding, prev |-> psPreviousBinding]
  ELSE List_RemoveLoop(h, h.binds[psCurrentBinding].psNextBinding,
                       psCurrentBinding, pcKey)

List_SymTable_remove(h, t, pcKey) ==
  LET f == List_RemoveLoop(h, h.tabs[t].psFirstBinding, NULL, pcKey)
  IN  IF f.cur = NULL THEN [heap |-> h, ret |-> NULL]
      ELSE
        LET h1 == IF f.prev = NULL
                    THEN [h EXCEPT !.tabs[t].psFirstBinding =
                                      h.binds[f.cur].psNextBinding]
                    ELSE [h EXCEPT !.binds[f.prev].psNextBinding =
                                      h.binds[f.cur].psNextBinding]
            h2 == FreeBinding(FreeString(h1, h1.binds[f.cur].Key), f.cur)
        IN  [heap |-> [h2 EXCEPT !.tabs[t].size = @ - 1],
             ret |-> h.binds[f.cur].Value]

RECURSIVE List_MapLoop(_, _, _)
\* the loop of SymTable_map: the calls of pfApply, first Binding to last
List_MapLoop(h, psCurrentBinding, pvExtra) ==
  IF psCurrentBinding = NULL THEN <<>>
  ELSE <<Visit(h, psCurrentBinding, pvExtra)>>
       \o List_MapLoop(h, h.binds[psCurrentBinding].psNextBinding, pvExtra)

List_SymTable_map(h, t, pvExtra) ==
  List_MapLoop(h, h.tabs[t].psFirstBinding, pvExtra)

----------------------------------------------------------------------------
(* Addresses up to renaming *)

(* Which free address malloc returns is arbitrary, and the program never   *)
(* compares, orders or prints an address: two heaps that differ by a       *)
(* renaming of addresses are the same program state.  Between calls the    *)
(* state holds one representative of each such class: the blocks numbered  *)
(* in the order a walk from the handle meets them (the store record, its   *)
(* array, then bucket by bucket and chain by chain each Binding and its    *)
(* key copy), followed by the blocks the walk does not reach.  Within a    *)
(* call the addresses are the ones Malloc returned.                        *)

\* a pointer to a block that is no longer allocated
Dangling == -1

Range(s) == {s[i] : i \in DOMAIN s}

RECURSIVE WalkChain(_, _, _)
WalkChain(h, p, acc) ==
  IF p = NULL \/ p \in Range(acc) \/ p \notin DOMAIN h.binds THEN acc
  ELSE LET k == h.binds[p].Key
           a == IF k \in DOMAIN h.strs /\ k \notin Range(acc) /\ k # p
                  THEN <<p, k>> ELSE <<p>>
       IN  WalkChain(h, h.binds[p].psNextBinding, acc \o a)

RECURSIVE WalkSlots(_, _, _, _)
WalkSlots(h, slots, i, acc) ==
  IF i > Len(slots) THEN acc
  ELSE WalkSlots(h, slots, i + 1, WalkChain(h, slots[i], acc))

RECURSIVE Ascending(_)
\* the elements of a set of addresses in ascending order
Ascending(S) ==
  IF S = {} THEN <<>>
  ELSE LET m == CHOOSE x \in S : \A y \in S : x <= y
       IN  <<m>> \o Ascending(S \ {m})

\* the blocks of h in the order of the walk from the handle t
WalkOrder(h, t) ==
  LET w == IF t \in DOMAIN h.tabs
             THEN LET b == h.tabs[t].Bindings
                  IN  IF b \in DOMAIN h.arrs
                        THEN WalkSlots(h, h.arrs[b], 1, <<t, b>>)
                        ELSE <<t>>
             ELSE <<>>
  IN  w \o Ascending(Used(h) \ Range(w))

\* h with its blocks renumbered in the order of the walk from t
Canon(h, t) ==
  LET ord == WalkOrder(h, t)
      Ren(p) == IF p = NULL THEN NULL
                ELSE IF p \in Range(ord)
                  THEN CHOOSE i \in DOMAIN ord : ord[i] = p
                ELSE Dangling
      Img(f) == {Ren(a) : a \in DOMAIN f}
      Pre(i) == ord[i]
  IN  [tabs  |-> [i \in Img(h.tabs) |->
                    [h.tabs[Pre(i)] EXCEPT !.Bindings = Ren(@)]],
       arrs  |-> [i \in Img(h.arrs) |->
                    [j \in DOMAIN h.arrs[Pre(i)] |-> Ren(h.arrs[Pre(i)][j])]],
       binds |-> [i \in Img(h.binds) |->
                    [h.binds[Pre(i)] EXCEPT !.Key = Ren(@),
                                            !.psNextBinding = Ren(@)]],
       strs  |-> [i \in Img(h.strs) |-> h.strs[Pre(i)]],
       fault |-> h.fault,
       referents |-> h.referents]

\* the handle after the renumbering
CanonHandle(t) == IF t = NULL THEN NULL ELSE 1

----------------------------------------------------------------------------
(* The client: one call of the interface per step *)

\* the allocations one call of SymTable_put can make: 2 for the new
\* Binding, 1 for the new array and 2 for each Binding an expansion copies
MaxAllocs(h, t) ==
  IF PutNeedsExpand(h, t) /\ ~ExpandAtMax(h, t) THEN 3 + 2 * h.tabs[t].size
  ELSE 2

\* what the last call was and what it returned.  value is pvValue (pvExtra
\* for map); visits is the sequence of calls of pfApply.
Call(op, key, value, ret, alloc, expand, visits) ==
  [op |-> op, key |-> key, value |-> value, ret |-> ret, alloc |-> alloc,
   expand |-> expand, visits |-> visits]

Init ==
  /\ charSigned \in BOOLEAN
  /\ LET r == SymTable_new(EmptyHeap, 0)
     IN  /\ heap = Canon(r.heap, r.ret)
         /\ oSymTable = CanonHandle(r.ret)
         /\ last = Call("new", <<0>>, NULL, CanonHandle(r.ret), "ok", "none",
                         <<>>)

New ==
  /\ oSymTable = NULL
  /\ \E failAt \in 0..2 :
       LET r == SymTable_new(heap, failAt)
       IN  /\ heap' = Canon(r.heap, r.ret)
           /\ oSymTable' = CanonHandle(r.ret)
           /\ last' = Call("new", <<0>>, NULL, CanonHandle(r.ret),
                           IF r.ret = NULL THEN "nomem" ELSE "ok", "none",
                           <<>>)
  /\ UNCHANGED charSigned

Free ==
  /\ oSymTable # NULL
  /\ heap' = Canon(SymTable_free(heap, oSymTable), NULL)
  /\ oSymTable' = NULL
  /\ last' = Call("free", <<0>>, NULL, NULL, "none", "none", <<>>)
  /\ UNCHANGED charSigned

GetLength ==
  /\ oSymTable # NULL
  /\ last' = Call("getLength", <<0>>, NULL,
                  SymTable_getLength(heap, oSymTable), "none", "none", <<>>)
  /\ UNCHANGED <<heap, oSymTable, charSigned>>

Put ==
  /\ oSymTable # NULL
  /\ \E pcKey \in Keys, pvValue \in Values, failAt \in 0..MaxAllocs(heap, oSymTable) :
       LET r == SymTable_put(heap, oSymTable, pcKey, pvValue, failAt)
       IN  /\ heap' = Canon(r.heap, oSymTable)
           /\ last' = Call("put", pcKey, pvValue, r.ret, r.alloc, r.expand,
                           <<>>)
  /\ UNCHANGED <<oSymTable, charSigned>>

Replace ==
  /\ oSymTable # NULL
  /\ \E pcKey \in Keys, pvValue \in Values :
       LET r == SymTable_replace(heap, oSymTable, pcKey, pvValue)
       IN  /\ heap' = Canon(r.heap, oSymTable)
           /\ last' = Call("replace", pcKey, pvValue, r.ret, "none", "none",
                           <<>>)
  /\ UNCHANGED <<oSymTable, charSigned>>

Contains ==
  /\ oSymTable # NULL
  /\ \E pcKey \in Keys :
       last' = Call("contains", pcKey, NULL,
                    SymTable_contains(heap, oSymTable, pcKey), "none", "none",
                    <<>>)
  /\ UNCHANGED <<heap, oSymTable, charSigned>>

\* the Binding of pcKey moved to the front of its chain
MoveToFront(h, t, pcKey) ==
  LET hash == SymTable_hash(pcKey, BucketCount(h, t))
      f    == RemoveLoop(h, Bucket(h, t, hash), NULL, pcKey)
  IN  IF f.cur = NULL \/ f.prev = NULL THEN h
      ELSE [h EXCEPT !.binds[f.prev].psNextBinding =
                        h.binds[f.cur].psNextBinding,
                     !.binds[f.cur].psNextBinding = Bucket(h, t, hash),
                     !.arrs[h.tabs[t].Bindings][hash + 1] = f.cur]

\* the lookup of a self-organising table: the Binding found is moved to the
\* front of its chain
Get_moveToFront ==
  /\ oSymTable # NULL
  /\ \E pcKey \in Keys :
       /\ heap' = Canon(MoveToFront(heap, oSymTable, pcKey), oSymTable)
       /\ last' = Call("get", pcKey, NULL,
                       SymTable_get(heap, oSymTable, pcKey), "none", "none",
                       <<>>)
  /\ UNCHANGED <<oSymTable, charSigned>>

Get ==
  /\ oSymTable # NULL
  /\ \E pcKey \in Keys :
       last' = Call("get", pcKey, NULL, SymTable_get(heap, oSymTable, pcKey),
                    "none", "none", <<>>)
  /\ UNCHANGED <<heap, oSymTable, charSigned>>

Remove ==
  /\ oSymTable # NULL
  /\ \E pcKey \in Keys :
       LET r == SymTable_remove(heap, oSymTable, pcKey)
       IN  /\ heap' = Canon(r.heap, oSymTable)
           /\ last' = Call("remove", pcKey, NULL, r.ret, "none", "none", <<>>)
  /\ UNCHANGED <<oSymTable, charSigned>>

Map ==
  /\ oSymTable # NULL
  /\ \E pvExtra \in Values :
       last' = Call("map", <<0>>, pvExtra, NULL, "none", "none",
                    SymTable_map(heap, oSymTable, pvExtra))
  /\ UNCHANGED <<heap, oSymTable, charSigned>>

Next ==
  \/ New
  \/ Free
  \/ GetLength
  \/ Put
  \/ Replace
  \/ Contains
  \/ Get
  \/ Remove
  \/ Map

Spec == Init /\ [][Next]_vars

\* SymTable_put called while there is memory for every allocation of
\* SymTable_expand: only the allocation of the new Binding (the first of
\* the call) or of its key copy (the second) may fail
PutWithMemoryForExpand ==
  /\ oSymTable # NULL
  /\ \E pcKey \in Keys, pvValue \in Values, failAt \in 0..2 :
       LET r == SymTable_put(heap, oSymTable, pcKey, pvValue, failAt)
       IN  /\ heap' = Canon(r.heap, oSymTable)
           /\ last' = Call("put", pcKey, pvValue, r.ret, r.alloc, r.expand,
                           <<>>)
  /\ UNCHANGED <<oSymTable, charSigned>>

NextWithMemoryForExpand ==
  \/ New
  \/ Free
  \/ GetLength
  \/ PutWithMemoryForExpand
  \/ Replace
  \/ Contains
  \/ Get
  \/ Remove
  \/ Map

\* the behaviours in which no expansion fails for lack of memory
SpecWithMemoryForExpand == Init /\ [][NextWithMemoryForExpand]_vars

----------------------------------------------------------------------------
(* SymTable_hash on its own: any key, any bucket count *)

\* the longest key of the keys enumerated in full
HashKeyLen == 2

\* the chars of those keys: low and high values, and those next to the
\* sign bit
HashBytes == {1, 97, 127, 128, 201, 255}

\* SIZES as the source has it
SourceSizes == <<509, 1021, 2039, 4093, 8191, 16381, 32749, 65521>>

\* the char arrays pcKey points to: every string of up to HashKeyLen chars
\* of HashBytes, two strings long enough for the product to pass the width
\* of size_t, and buffers that hold other chars after the terminator
HashKeys ==
  {k \o <<0>> : k \in UNION {[1..n -> HashBytes] : n \in 0..HashKeyLen}}
    \cup { <<97, 98, 99, 100, 101, 102, 0>>,
           <<201, 255, 128, 97, 98, 99, 0>>,
           <<97, 0, 98, 0>>, <<0, 201, 0>>, <<201, 97, 0, 255>> }

\* the bucket counts: small ones, a power of the byte range, and the
\* source's
HashCapacities == {1, 2, 3, 256} \cup Range(SourceSizes)

\* no store: the helper reads its arguments only.  The arguments of the
\* call to come are last.key (pcKey) and last.value (uBucketCount).
InitHash ==
  /\ charSigned \in BOOLEAN
  /\ heap = EmptyHeap
  /\ oSymTable = NULL
  /\ \E pcKey \in HashKeys, uBucketCount \in HashCapacities :
       last = Call("args", pcKey, uBucketCount, NULL, "none", "none", <<>>)

\* the call SymTable_hash(pcKey, uBucketCount); last.ret is what it
\* returned
Hash ==
  /\ last.op = "args"
  /\ last' = [last EXCEPT !.op = "hash",
                          !.ret = SymTable_hash(last.key, last.value)]
  /\ UNCHANGED <<heap, oSymTable, charSigned>>

NextHash == Hash

SpecHash == InitHash /\ [][NextHash]_vars

----------------------------------------------------------------------------
(* Views of the store used to state the properties.  They read the blocks  *)
(* and the links directly and use neither SymTable_hash nor SymTable_find. *)

\* the table of the live store
T == oSymTable

Live == oSymTable # NULL

RECURSIVE ChainOf(_, _, _)
\* the Bindings of the chain that starts at p, in order; fuel bounds the
\* walk should the chain have a cycle
ChainOf(h, p, fuel) ==
  IF p = NULL \/ fuel = 0 THEN <<>>
  ELSE <<p>> \o ChainOf(h, h.binds[p].psNextBinding, fuel - 1)

\* the chain of slot i (0-based) of the bucket array of t
ChainAt(h, t, i) ==
  ChainOf(h, h.arrs[h.tabs[t].Bindings][i + 1], Cardinality(DOMAIN h.binds) + 1)

\* the number of slots of the bucket array of t
Slots(h, t) == Len(h.arrs[h.tabs[t].Bindings])

\* the Bindings linked in the chains of t
Linked(h, t) == UNION {Range(ChainAt(h, t, i)) : i \in 0..(Slots(h, t) - 1)}

RECURSIVE SumLen(_, _, _)
\* the number of Bindings in the chains of the slots i .. of t, a Binding
\* counted once for each time a chain holds it
SumLen(h, t, i) ==
  IF i >= Slots(h, t) THEN 0
  ELSE Len(ChainAt(h, t, i)) + SumLen(h, t, i + 1)

\* the <<key, value>> pairs the store holds
Contents(h, t) == {<<KeyOf(h, p), h.binds[p].Value>> : p \in Linked(h, t)}

\* whether a Binding with key k is linked in some chain
Present(h, t, k) == \E p \in Linked(h, t) : KeyOf(h, p) = k

\* the value bound to a present key
ValueOf(h, t, k) == h.binds[CHOOSE p \in Linked(h, t) : KeyOf(h, p) = k].Value

RECURSIVE ChainsFrom(_, _, _)
\* the chains of the slots i .. of t, one after the other
ChainsFrom(h, t, i) ==
  IF i >= Slots(h, t) THEN <<>>
  ELSE ChainAt(h, t, i) \o ChainsFrom(h, t, i + 1)

\* the slot (0-based) whose chain holds Binding p
SlotOf(h, t, p) ==
  CHOOSE i \in 0..(Slots(h, t) - 1) : p \in Range(ChainAt(h, t, i))

\* the place of Binding p in its chain, 1 for the head
PlaceOf(h, t, p) ==
  LET c == ChainAt(h, t, SlotOf(h, t, p))
  IN  CHOOSE n \in DOMAIN c : c[n] = p

\* the Binding block whose key is k
BindingOf(h, k) == CHOOSE p \in DOMAIN h.binds : KeyOf(h, p) = k

Order(h, t) == h.tabs[t].bucketCountOrder

Size(h, t) == h.tabs[t].size

TypeOK ==
  /\ charSigned \in BOOLEAN
  /\ oSymTable = NULL => Used(heap) = {}
  /\ oSymTable # NULL => DOMAIN heap.tabs = {oSymTable}
  /\ ~heap.fault

----------------------------------------------------------------------------
(* C1 *)

\* C1: in every reachable store, a put(k, v) of a key k that is not present
\* whose Binding and key-copy allocations succeed (the failing allocation,
\* if any, is one of the rehash) returns 1, and get(k) then returns v and
\* contains(k) is true; and after every put that returned 1 get of its key
\* returns its value and contains is true.
C1_PutThenGet ==
  Live =>
    /\ \A pcKey \in Keys, pvValue \in Values,
          failAt \in 0..MaxAllocs(heap, T) :
          (~Present(heap, T, pcKey) /\ failAt \notin {1, 2}) =>
             LET r == SymTable_put(heap, T, pcKey, pvValue, failAt)
             IN  /\ r.ret = 1
                 /\ SymTable_get(r.heap, T, pcKey) = pvValue
                 /\ SymTable_contains(r.heap, T, pcKey) = 1
    /\ (last.op = "put" /\ last.ret = 1) =>
          /\ SymTable_get(heap, T, last.key) = last.value
          /\ SymTable_contains(heap, T, last.key) = 1

\* a put of a third key has just returned 1 after its rehash failed
W_C1 ==
  /\ Live
  /\ last.op = "put" /\ last.ret = 1 /\ last.expand = "nomem"
  /\ last.value # NULL
  /\ Size(heap, T) = 3
  /\ SymTable_get(heap, T, last.key) = last.value

----------------------------------------------------------------------------
(* C2 *)

\* C2: a put of a key the store holds returns 0, attempts no allocation and
\* no rehash, and leaves the whole heap as it was, so that get of the key
\* still returns the value stored first.
C2_DuplicatePut ==
  [][(last'.op = "put" /\ Live /\ Present(heap, T, last'.key)) =>
       /\ last'.ret = 0
       /\ last'.alloc = "none"
       /\ last'.expand = "none"
       /\ heap' = heap
       /\ SymTable_get(heap', T, last'.key) = ValueOf(heap, T, last'.key)]_vars

\* a put of a held key with another value has just returned 0 in a store
\* whose element count has reached its capacity below the last tier
W_C2 ==
  /\ Live
  /\ last.op = "put" /\ last.ret = 0 /\ last.alloc = "none"
  /\ Present(heap, T, last.key)
  /\ ValueOf(heap, T, last.key) # last.value
  /\ Size(heap, T) >= BucketCount(heap, T)
  /\ ~ExpandAtMax(heap, T)

----------------------------------------------------------------------------
(* C3 *)

\* C3: replace(k, v2) of a key bound to v1 returns v1, get(k) then returns
\* v2, and the element count, the tier and the bindings of the other keys
\* are as before; replace of an absent key returns NULL and leaves the heap
\* as it was.
C3_Replace ==
  [][last'.op = "replace" =>
       LET k == last'.key
       IN  IF Present(heap, T, k)
             THEN /\ last'.ret = ValueOf(heap, T, k)
                  /\ SymTable_get(heap', T, k) = last'.value
                  /\ Size(heap', T) = Size(heap, T)
                  /\ Order(heap', T) = Order(heap, T)
                  /\ Contents(heap', T) =
                       (Contents(heap, T) \ {<<k, ValueOf(heap, T, k)>>})
                         \cup {<<k, last'.value>>}
                  /\ \A k2 \in Keys \ {k} :
                       SymTable_get(heap', T, k2) = SymTable_get(heap, T, k2)
             ELSE /\ last'.ret = NULL
                  /\ heap' = heap]_vars

\* a replace has just returned the old value of a key, the new value is
\* another one, and the store holds other keys
W_C3 ==
  /\ Live
  /\ last.op = "replace" /\ last.ret # NULL /\ last.ret # last.value
  /\ SymTable_get(heap, T, last.key) = last.value
  /\ Size(heap, T) >= 2

----------------------------------------------------------------------------
(* C4 *)

\* C4: remove(k) of a key bound to v returns v and decrements the element
\* count by one; afterwards contains(k) is 0, get(k) is NULL and another
\* remove(k) returns NULL and leaves the element count; remove of an absent
\* key returns NULL and leaves the element count.
C4_Remove ==
  [][last'.op = "remove" =>
       LET k == last'.key
       IN  IF Present(heap, T, k)
             THEN /\ last'.ret = ValueOf(heap, T, k)
                  /\ SymTable_getLength(heap', T)
                       = SymTable_getLength(heap, T) - 1
                  /\ SymTable_contains(heap', T, k) = 0
                  /\ SymTable_get(heap', T, k) = NULL
                  /\ LET again == SymTable_remove(heap', T, k)
                     IN  /\ again.ret = NULL
                         /\ SymTable_getLength(again.heap, T)
                              = SymTable_getLength(heap', T)
             ELSE /\ last'.ret = NULL
                  /\ SymTable_getLength(heap', T)
                       = SymTable_getLength(heap, T)]_vars

\* a remove has just returned the non-NULL value of its key and other keys
\* remain
W_C4 ==
  /\ Live
  /\ last.op = "remove" /\ last.ret # NULL
  /\ ~Present(heap, T, last.key)
  /\ Size(heap, T) >= 2

----------------------------------------------------------------------------
(* C5 *)

\* the element count is the number of Bindings linked in the chains, and a
\* new store has none
C5_Count ==
  Live =>
    /\ SymTable_getLength(heap, T) = SumLen(heap, T, 0)
    /\ last.op = "new" => SymTable_getLength(heap, T) = 0

\* a put that returns 1 adds one to the element count; a put that returns
\* 0, replace, get, contains, map and getLength leave it
C5_Step ==
  /\ (last'.op = "put" /\ last'.ret = 1) =>
        SymTable_getLength(heap', T) = SymTable_getLength(heap, T) + 1
  /\ \/ last'.op = "put" /\ last'.ret = 0
     \/ last'.op \in {"replace", "get", "contains", "map", "getLength"}
     => SymTable_getLength(heap', T) = SymTable_getLength(heap, T)

\* C5: getLength is at all times the number of Bindings linked in the
\* bucket chains; it is 0 for a new store and every put that returns 1 adds
\* exactly one, so that N successful puts and no remove make it N.
C5_Length == []C5_Count /\ [][C5_Step]_vars

\* getLength has just returned 3 for a store of three chained Bindings that
\* never expanded
W_C5 ==
  /\ Live
  /\ last.op = "getLength" /\ last.ret = 3
  /\ SumLen(heap, T, 0) = 3
  /\ Order(heap, T) = 0

----------------------------------------------------------------------------
(* C6 *)

\* C6: in every reachable store no two places of the bucket chains, in one
\* chain or in two, hold Bindings whose keys compare equal.
C6_UniqueKeys ==
  Live =>
    LET all == ChainsFrom(heap, T, 0)
    IN  \A x, y \in DOMAIN all :
          x # y => strcmp(KeyOf(heap, all[x]), KeyOf(heap, all[y])) # 0

\* three keys in the two buckets of the expanded table, two of them in one
\* chain, the last of them put after a remove
W_C6 ==
  /\ Live
  /\ Size(heap, T) = 3 /\ Order(heap, T) = 1
  /\ last.op = "put" /\ last.ret = 1 /\ last.expand = "max"
  /\ \E i \in 0..1 : Len(ChainAt(heap, T, i)) = 2

----------------------------------------------------------------------------
(* C7 *)

\* an expansion of any reachable store below the last tier whose
\* allocations succeed leaves the pairs held, get and contains of every key
\* and the element count as they were
C7_Expand ==
  (Live /\ ~ExpandAtMax(heap, T)) =>
    LET e == SymTable_expand(heap, T, 0, 0)
    IN  /\ e.outcome = "ok"
        /\ Order(e.heap, T) = Order(heap, T) + 1
        /\ Contents(e.heap, T) = Contents(heap, T)
        /\ Size(e.heap, T) = Size(heap, T)
        /\ \A k \in Keys :
             /\ SymTable_get(e.heap, T, k) = SymTable_get(heap, T, k)
             /\ SymTable_contains(e.heap, T, k) = SymTable_contains(heap, T, k)

\* a put that expanded the table changed the pairs held by its own pair
\* only, and get and contains of every other key are as before
C7_Step ==
  (last'.op = "put" /\ last'.expand = "ok") =>
    /\ Order(heap', T) = Order(heap, T) + 1
    /\ Contents(heap', T) = Contents(heap, T) \cup {<<last'.key, last'.value>>}
    /\ \A k \in Keys \ {last'.key} :
         /\ SymTable_get(heap', T, k) = SymTable_get(heap, T, k)
         /\ SymTable_contains(heap', T, k) = SymTable_contains(heap, T, k)

\* C7: a successful rehash preserves the contents: the pairs held after
\* the expansion are the pairs held before it, get returns the same value
\* for every key held and contains stays 0 for every key not held.
C7_Rehash == []C7_Expand /\ [][C7_Step]_vars

\* a put has just expanded a table that held two keys with non-NULL values
W_C7 ==
  /\ Live
  /\ last.op = "put" /\ last.expand = "ok"
  /\ Size(heap, T) = 3 /\ Order(heap, T) = 1
  /\ \A k \in Keys \ {last.key} : SymTable_get(heap, T, k) # NULL

----------------------------------------------------------------------------
(* C8 *)

\* a put of an absent key in which the allocation of the Binding (the
\* first) or of the key copy (the second) fails returns 0 and its heap is
\* the heap it was given
C8_Fail ==
  Live =>
    \A pcKey \in Keys, pvValue \in Values, failAt \in {1, 2} :
      ~Present(heap, T, pcKey) =>
        LET r == SymTable_put(heap, T, pcKey, pvValue, failAt)
        IN  r.ret = 0 /\ r.alloc = "nomem" /\ r.heap = heap

\* a put that could not allocate returned 0, attempted no expansion and
\* left the heap, and with it the blocks allocated, as it was
C8_Step ==
  (last'.op = "put" /\ last'.alloc = "nomem") =>
    /\ last'.ret = 0
    /\ last'.expand = "none"
    /\ heap' = heap
    /\ Used(heap') = Used(heap)

\* C8: when the allocation of the new Binding or of its key copy fails,
\* put returns 0 and the store is as before the call: the same blocks with
\* the same contents, so the same bindings, count, array and tier, and no
\* block allocated by the call.
C8_PutNoMem == []C8_Fail /\ [][C8_Step]_vars

\* a put of an absent key has just failed for lack of memory in a store
\* whose element count has reached its capacity below the last tier
W_C8 ==
  /\ Live
  /\ last.op = "put" /\ last.ret = 0 /\ last.alloc = "nomem"
  /\ ~Present(heap, T, last.key)
  /\ Size(heap, T) >= BucketCount(heap, T)
  /\ ~ExpandAtMax(heap, T)

----------------------------------------------------------------------------
(* C9 *)

\* C9: a put of an absent key in which an allocation of the rehash fails
\* (the third allocation of the call, for the new array, or any later one,
\* for a Binding or a key copy of the walk) returns 1; the store record
\* points to the same array at the same tier, every Binding and key copy
\* there was is the same block with the same contents, the only blocks
\* added are the new Binding and its key copy, nothing was freed twice,
\* and the new Binding is the head of its bucket in the old array.
C9_RehashFails ==
  Live =>
    \A pcKey \in Keys, pvValue \in Values,
       failAt \in 3..MaxAllocs(heap, T) :
      ~Present(heap, T, pcKey) =>
        LET r == SymTable_put(heap, T, pcKey, pvValue, failAt)
            b == heap.tabs[T].Bindings
        IN  /\ r.expand = "nomem"
            /\ r.ret = 1
            /\ r.heap.tabs[T].Bindings = b
            /\ Order(r.heap, T) = Order(heap, T)
            /\ DOMAIN r.heap.arrs = DOMAIN heap.arrs
            /\ Len(r.heap.arrs[b]) = Len(heap.arrs[b])
            /\ \A p \in DOMAIN heap.binds :
                 p \in DOMAIN r.heap.binds /\ r.heap.binds[p] = heap.binds[p]
            /\ \A p \in DOMAIN heap.strs :
                 p \in DOMAIN r.heap.strs /\ r.heap.strs[p] = heap.strs[p]
            /\ Cardinality(Used(r.heap)) = Cardinality(Used(heap)) + 2
            /\ ~r.heap.fault
            /\ Contents(r.heap, T) = Contents(heap, T) \cup {<<pcKey, pvValue>>}
            /\ SymTable_get(r.heap, T, pcKey) = pvValue
            /\ \E i \in 0..(Slots(heap, T) - 1) :
                 /\ ChainAt(r.heap, T, i)
                      = <<BindingOf(r.heap, pcKey)>> \o ChainAt(heap, T, i)
                 /\ \A j \in 0..(Slots(heap, T) - 1) \ {i} :
                      ChainAt(r.heap, T, j) = ChainAt(heap, T, j)

\* a put has just returned 1 after its rehash of a table of two Bindings
\* failed, and the table is at the first tier still
W_C9 ==
  /\ Live
  /\ last.op = "put" /\ last.ret = 1 /\ last.expand = "nomem"
  /\ Size(heap, T) = 3 /\ Order(heap, T) = 0
  /\ Cardinality(Used(heap)) = 8
  /\ SymTable_contains(heap, T, last.key) = 1

----------------------------------------------------------------------------
(* C10 *)

\* C10: one call of map calls pfApply as many times as there are Binding
\* blocks, the calls are exactly the (key, value, pvExtra) of those blocks,
\* and they come in ascending order of the bucket and, within a bucket,
\* from the head of the chain to its tail.
C10_Map ==
  (Live /\ last.op = "map") =>
    LET vs == last.visits
        b(i) == BindingOf(heap, vs[i].key)
    IN  /\ Len(vs) = Cardinality(DOMAIN heap.binds)
        /\ Range(vs) = {[key |-> KeyOf(heap, p), value |-> heap.binds[p].Value,
                          extra |-> last.value] : p \in DOMAIN heap.binds}
        /\ \A i, j \in DOMAIN vs :
             i < j =>
               \/ SlotOf(heap, T, b(i)) < SlotOf(heap, T, b(j))
               \/ /\ SlotOf(heap, T, b(i)) = SlotOf(heap, T, b(j))
                  /\ PlaceOf(heap, T, b(i)) < PlaceOf(heap, T, b(j))

\* map has just visited three Bindings of an expanded table, two of them in
\* one chain, with a non-NULL pvExtra
W_C10 ==
  /\ Live
  /\ last.op = "map" /\ last.value # NULL
  /\ Len(last.visits) = 3 /\ Order(heap, T) = 1
  /\ \E i \in 0..1 : Len(ChainAt(heap, T, i)) = 2

----------------------------------------------------------------------------
(* C11 *)

\* C11: destroying any reachable store, whatever sequence of calls built it
\* (rehashes that succeeded or failed included), frees every block the
\* store allocated and has not freed yet (the store record, the bucket
\* array, every Binding and every key copy) with no block freed twice, so
\* that no store block is left; a bucket array a rehash replaced is no
\* longer allocated when the store is destroyed; and every referent of a
\* value the client supplied is still allocated, in every state and after
\* the destroy.
C11_Destroy ==
  /\ heap.referents = Referents
  /\ Live =>
       LET h == SymTable_free(heap, T)
       IN  /\ Used(h) = {}
           /\ ~h.fault
           /\ h.referents = Referents
           /\ DOMAIN heap.arrs = {heap.tabs[T].Bindings}
  /\ ~Live => Used(heap) = {} /\ ~heap.fault

\* a store has just been destroyed: no store block is allocated and the
\* client's referents are
W_C11 ==
  /\ ~Live
  /\ last.op = "free"
  /\ Used(heap) = {}
  /\ heap.referents = Referents /\ Referents # {}

----------------------------------------------------------------------------
(* C12 *)

\* what the calls return on a store in which no Binding is linked
EmptyObservations(h, t) ==
  /\ SymTable_getLength(h, t) = 0
  /\ \A pcKey \in Keys :
       /\ SymTable_contains(h, t, pcKey) = 0
       /\ SymTable_get(h, t, pcKey) = NULL
       /\ LET r == SymTable_remove(h, t, pcKey)
          IN  r.ret = NULL /\ r.heap = h
       /\ \A pvValue \in Values :
            LET r == SymTable_replace(h, t, pcKey, pvValue)
            IN  r.ret = NULL /\ r.heap = h
  /\ \A pvExtra \in Values : SymTable_map(h, t, pvExtra) = <<>>

\* C12: a store SymTable_new has just returned is at the first tier, with
\* SIZES[0] slots and no Binding; and on every store in which no Binding is
\* linked, new or emptied by removes at whatever tier, getLength is 0,
\* contains is 0 and get, remove and replace return NULL for every key and
\* change nothing, and map calls pfApply zero times.
C12_Empty ==
  /\ (Live /\ last.op = "new") =>
        /\ Order(heap, T) = 0
        /\ Slots(heap, T) = SizeAt(0)
        /\ Linked(heap, T) = {}
        /\ DOMAIN heap.binds = {} /\ DOMAIN heap.strs = {}
  /\ (Live /\ Linked(heap, T) = {}) => EmptyObservations(heap, T)

\* the last key of a store that had expanded has just been removed
W_C12 ==
  /\ Live
  /\ last.op = "remove" /\ last.ret # NULL
  /\ Linked(heap, T) = {}
  /\ Order(heap, T) = 1
  /\ SymTable_getLength(heap, T) = 0

----------------------------------------------------------------------------
(* C13 *)

\* the tier index is an index of SIZES, and on a store at the last tier a
\* put of an absent key whose Binding and key copy are allocated returns 1
\* without an expansion and leaves the tier
C13_Range ==
  Live =>
    /\ Order(heap, T) \in 0..(Len(SIZES) - 1)
    /\ Order(heap, T) = Len(SIZES) - 1 =>
         \A pcKey \in Keys, pvValue \in Values,
            failAt \in 0..MaxAllocs(heap, T) :
           (~Present(heap, T, pcKey) /\ failAt \notin {1, 2}) =>
             LET r == SymTable_put(heap, T, pcKey, pvValue, failAt)
             IN  /\ r.ret = 1
                 /\ r.expand \in {"none", "max"}
                 /\ Order(r.heap, T) = Order(heap, T)
                 /\ Size(r.heap, T) = Size(heap, T) + 1

\* one call on a store: the tier does not decrease, it advances by at most
\* one, and only a put advances it
C13_Step ==
  (oSymTable # NULL /\ oSymTable' # NULL) =>
    /\ Order(heap', oSymTable') >= Order(heap, T)
    /\ Order(heap', oSymTable') <= Order(heap, T) + 1
    /\ last'.op # "put" => Order(heap', oSymTable') = Order(heap, T)

\* C13: between the construction of a store and its destruction the tier
\* index never decreases (a remove leaves it), advances by at most one in a
\* call, advances in no call other than put, and is at most the index of
\* the last entry of SIZES; at the last tier a put of an absent key whose
\* allocations succeed returns 1 and leaves the tier.
C13_Tier == []C13_Range /\ [][C13_Step]_vars

\* a put of a third key has just returned 1 at the last tier, where the
\* element count was at the capacity already
W_C13 ==
  /\ Live
  /\ last.op = "put" /\ last.ret = 1 /\ last.expand = "max"
  /\ Order(heap, T) = Len(SIZES) - 1
  /\ Size(heap, T) > BucketCount(heap, T)

----------------------------------------------------------------------------
(* C14 *)

\* the Bindings of the list store lt of heap lh, first to last
ListChain(lh, lt) ==
  ChainOf(lh, lh.tabs[lt].psFirstBinding, Cardinality(DOMAIN lh.binds) + 1)

\* the <<key, value>> pairs of the list store, first to last
ListPairs(lh, lt) ==
  LET c == ListChain(lh, lt)
  IN  [i \in 1..Len(c) |-> <<KeyOf(lh, c[i]), lh.binds[c[i]].Value>>]

\* the list store holds the pairs the hash table holds, each once, in some
\* order, counts them, and has no other Binding
Related(h, t, lh, lt) ==
  LET ps == ListPairs(lh, lt)
  IN  /\ Range(ps) = Contents(h, t)
      /\ Len(ps) = Cardinality(Contents(h, t))
      /\ List_SymTable_getLength(lh, lt) = Len(ps)
      /\ DOMAIN lh.binds = Range(ListChain(lh, lt))
      /\ ~lh.fault

\* the orders in which a list can hold the pairs of C
Orders(C) ==
  {s \in [1..Cardinality(C) -> C] :
     \A i, j \in 1..Cardinality(C) : i # j => s[i] # s[j]}

RECURSIVE ListBuild(_, _)
\* the list store that holds the pairs s[i], ..., s[Len(s)] in this order:
\* a new store in which they were put last to first
ListBuild(s, i) ==
  IF i > Len(s) THEN List_SymTable_new(EmptyHeap, 0)
  ELSE LET r == ListBuild(s, i + 1)
       IN  [heap |-> List_SymTable_put(r.heap, r.ret, s[i][1], s[i][2],
                                       0).heap,
            ret |-> r.ret]

\* every list store that holds the pairs of the hash table t
ListStores(h, t) == {ListBuild(s, 1) : s \in Orders(Contents(h, t))}

\* the allocation that fails in the list store's put when allocation failAt
\* fails in the hash table's: the Binding and the key copy are the first
\* two of both, the later ones are the rehash's and the list has none
ListFailAt(failAt) == IF failAt \in {1, 2} THEN failAt ELSE 0

\* the <<key, value>> pairs a sequence of calls of pfApply has visited
Visited(vs) == {<<vs[i].key, vs[i].value>> : i \in DOMAIN vs}

\* every call returns the same on the hash table t of h and on the list
\* store l, and leaves the two holding the same pairs
SameResults(h, t, l) ==
  /\ Related(h, t, l.heap, l.ret)
  /\ SymTable_getLength(h, t) = List_SymTable_getLength(l.heap, l.ret)
  /\ \A pvExtra \in Values :
       LET hv == SymTable_map(h, t, pvExtra)
           lv == List_SymTable_map(l.heap, l.ret, pvExtra)
       IN  /\ Visited(hv) = Visited(lv)
           /\ Len(hv) = Len(lv)
           /\ \A i \in DOMAIN lv : lv[i].extra = pvExtra
  /\ \A pcKey \in Keys :
       /\ SymTable_contains(h, t, pcKey)
            = List_SymTable_contains(l.heap, l.ret, pcKey)
       /\ SymTable_get(h, t, pcKey) = List_SymTable_get(l.heap, l.ret, pcKey)
       /\ LET hr == SymTable_remove(h, t, pcKey)
              lr == List_SymTable_remove(l.heap, l.ret, pcKey)
          IN  /\ hr.ret = lr.ret
              /\ Related(hr.heap, t, lr.heap, l.ret)
       /\ \A pvValue \in Values :
            /\ LET hr == SymTable_replace(h, t, pcKey, pvValue)
                   lr == List_SymTable_replace(l.heap, l.ret, pcKey, pvValue)
               IN  /\ hr.ret = lr.ret
                   /\ Related(hr.heap, t, lr.heap, l.ret)
            /\ \A failAt \in 0..MaxAllocs(h, t) :
                 LET hr == SymTable_put(h, t, pcKey, pvValue, failAt)
                     lr == List_SymTable_put(l.heap, l.ret, pcKey, pvValue,
                                             ListFailAt(failAt))
                 IN  /\ hr.ret = lr.ret
                     /\ Related(hr.heap, t, lr.heap, l.ret)

\* C14: the new hash table and the new list store hold the same pairs
\* (none); and for every reachable hash table and every list store that
\* holds the same pairs, in whatever order, each of getLength, contains,
\* get, replace, remove and put returns the same on both and leaves them
\* holding the same pairs, where the Binding or the key copy of a put fails
\* to be allocated in both or in neither and the allocations of the rehash
\* fail or not, and map visits the same set of pairs on both.  By
\* induction on the calls, the two return the same at every call of every
\* sequence.
C14_ListEquivalent ==
  /\ LET n == SymTable_new(EmptyHeap, 0)
         l == List_SymTable_new(EmptyHeap, 0)
     IN  Related(n.heap, n.ret, l.heap, l.ret)
  /\ Live => \A l \in ListStores(heap, T) : SameResults(heap, T, l)

\* a put of a third key has just returned 1 after its rehash failed, and
\* a list store that held the two other pairs returns 1 for the same put
\* and visits the three pairs in another order than the hash table does
W_C14 ==
  /\ Live
  /\ last.op = "put" /\ last.ret = 1 /\ last.expand = "nomem"
  /\ Size(heap, T) = 3
  /\ \E s \in Orders(Contents(heap, T) \ {<<last.key, last.value>>}) :
       LET l == ListBuild(s, 1)
           lr == List_SymTable_put(l.heap, l.ret, last.key, last.value, 0)
       IN  /\ lr.ret = last.ret
           /\ Related(heap, T, lr.heap, l.ret)
           /\ List_SymTable_map(lr.heap, l.ret, NULL)
                # SymTable_map(heap, T, NULL)

----------------------------------------------------------------------------
(* C15 *)

\* the length of the caller's key buffer: that of the longest key
KeyBufferLen ==
  CHOOSE n \in {Len(k) : k \in Keys} : \A k \in Keys : Len(k) <= n

\* the caller's buffer: a block the caller allocated and copied pcKey into
CallerBuffer(h, pcKey) ==
  LET a == Malloc(h)
  IN  [heap |-> [h EXCEPT !.strs =
                   Store(h.strs, a, strcpy(ZeroChars(KeyBufferLen), pcKey))],
       addr |-> a]

\* the caller copies another key into its buffer
Overwritten(h, a, pcKey) == [h EXCEPT !.strs[a] = strcpy(@, pcKey)]

\* the caller frees its buffer
Released(h, a) == FreeString(h, a)

\* what get, contains, replace and remove return for every key, and the
\* calls of pfApply map makes
Results(h, t) ==
  [get      |-> [k \in Keys |-> SymTable_get(h, t, k)],
   contains |-> [k \in Keys |-> SymTable_contains(h, t, k)],
   replace  |-> [k \in Keys |->
                   [v \in Values |-> SymTable_replace(h, t, k, v).ret]],
   remove   |-> [k \in Keys |-> SymTable_remove(h, t, k).ret],
   map      |-> [e \in Values |-> SymTable_map(h, t, e)]]

\* whatever the caller does with its buffer at a, the later calls return
\* what they return if it does nothing, and the store had not freed it
Unaliased(h, t, a, pcKey) ==
  /\ \A k2 \in Keys \ {pcKey} :
       Results(Overwritten(h, a, k2), t) = Results(h, t)
  /\ LET hr == Released(h, a)
     IN  /\ ~hr.fault
         /\ Results(hr, t) = Results(h, t)

\* C15: in every reachable store, after a put that returns 1 of a key the
\* caller holds in a buffer of its own, get returns the value and contains
\* 1 for the key, and the caller overwriting the buffer with another key or
\* freeing it changes no result of get, contains, replace, remove or map,
\* for any key; the same after a further put of another key, which
\* relocates the Binding when it rehashes.
C15_NoAlias ==
  Live =>
    \A pcKey \in Keys, pvValue \in Values,
       failAt \in 0..MaxAllocs(heap, T) :
      (~Present(heap, T, pcKey) /\ failAt \notin {1, 2}) =>
        LET b == CallerBuffer(heap, pcKey)
            r == SymTable_put(b.heap, T, b.heap.strs[b.addr], pvValue, failAt)
        IN  /\ r.ret = 1
            /\ SymTable_get(r.heap, T, pcKey) = pvValue
            /\ SymTable_contains(r.heap, T, pcKey) = 1
            /\ Unaliased(r.heap, T, b.addr, pcKey)
            /\ \A k2 \in Keys \ {pcKey} :
                 ~Present(heap, T, k2) =>
                   LET r2 == SymTable_put(r.heap, T, k2, NULL, 0)
                   IN  /\ r2.ret = 1
                       /\ SymTable_get(r2.heap, T, pcKey) = pvValue
                       /\ Unaliased(r2.heap, T, b.addr, pcKey)

\* a put has just filled the first tier, and in this store a put from the
\* caller's buffer whose rehash fails and a put of another key that
\* rehashes return 1: the rehash has moved the key copy to another block,
\* and get returns the value after the caller wrote the other key into its
\* buffer
W_C15 ==
  /\ Live
  /\ last.op = "put" /\ last.ret = 1
  /\ Order(heap, T) = 0 /\ Size(heap, T) = 1
  /\ \E pcKey \in Keys, k2 \in Keys :
       /\ pcKey # k2
       /\ ~Present(heap, T, pcKey) /\ ~Present(heap, T, k2)
       /\ LET b  == CallerBuffer(heap, pcKey)
              r  == SymTable_put(b.heap, T, b.heap.strs[b.addr], 1, 3)
              r2 == SymTable_put(r.heap, T, k2, NULL, 0)
              hc == Overwritten(r2.heap, b.addr, k2)
          IN  /\ r.ret = 1 /\ r.expand = "nomem"
              /\ r2.ret = 1 /\ r2.expand = "ok"
              /\ r.heap.binds[SymTable_find(r.heap, T, pcKey)].Key
                   \notin DOMAIN r2.heap.strs
              /\ hc.strs[b.addr] # b.heap.strs[b.addr]
              /\ SymTable_get(hc, T, pcKey) = 1

----------------------------------------------------------------------------
(* C16 *)

\* C16: a call of get, contains, getLength or map, with a visitor that only
\* observes its arguments, leaves every block of the heap as it was: the
\* store record with its array pointer, element count and tier, the slots
\* of the bucket array, and every Binding with its key pointer, value and
\* link, hence every chain and its order, and every key copy.
C16_ReadOnly ==
  [][last'.op \in {"get", "contains", "getLength", "map"} =>
       /\ oSymTable' = oSymTable
       /\ heap'.tabs = heap.tabs
       /\ heap'.arrs = heap.arrs
       /\ heap'.binds = heap.binds
       /\ heap'.strs = heap.strs
       /\ heap' = heap
       /\ \A i \in 0..(Slots(heap, T) - 1) :
            ChainAt(heap', T, i) = ChainAt(heap, T, i)]_vars

\* get has just returned the non-NULL value of the Binding at the end of a
\* chain of three
W_C16 ==
  /\ Live
  /\ last.op = "get" /\ last.ret # NULL
  /\ Size(heap, T) = 3 /\ Order(heap, T) = 0
  /\ PlaceOf(heap, T, BindingOf(heap, last.key)) = 3

----------------------------------------------------------------------------
(* C17 *)

\* C17 as stated: in every reachable store and for every key, each of get,
\* replace and remove returns NULL if and only if contains returns 0.
C17_NullIffAbsent ==
  Live =>
    \A pcKey \in Keys :
      LET absent == SymTable_contains(heap, T, pcKey) = 0
      IN  /\ SymTable_get(heap, T, pcKey) = NULL <=> absent
          /\ SymTable_remove(heap, T, pcKey).ret = NULL <=> absent
          /\ \A pvValue \in Values :
               SymTable_replace(heap, T, pcKey, pvValue).ret = NULL <=> absent

\* C17 as amended: in every reachable store and for every key k, contains
\* returns 0 exactly when no Binding holds k; get, replace and remove
\* return NULL when k is absent and the value stored with k when it is
\* present, so they return NULL if and only if k is absent or the value
\* stored with k is NULL.
C17_NullIffAbsentOrNullValue ==
  Live =>
    \A pcKey \in Keys :
      /\ SymTable_contains(heap, T, pcKey) = 0 <=> ~Present(heap, T, pcKey)
      /\ LET stored == IF Present(heap, T, pcKey)
                         THEN ValueOf(heap, T, pcKey) ELSE NULL
             null   == ~Present(heap, T, pcKey) \/ stored = NULL
         IN  /\ SymTable_get(heap, T, pcKey) = stored
             /\ SymTable_remove(heap, T, pcKey).ret = stored
             /\ \A pvValue \in Values :
                  SymTable_replace(heap, T, pcKey, pvValue).ret = stored
             /\ SymTable_get(heap, T, pcKey) = NULL <=> null
             /\ SymTable_remove(heap, T, pcKey).ret = NULL <=> null
             /\ \A pvValue \in Values :
                  SymTable_replace(heap, T, pcKey, pvValue).ret = NULL
                    <=> null

\* get has just returned NULL for a key the store holds with the value
\* NULL, next to a key it holds with another value
W_C17 ==
  /\ Live
  /\ last.op = "get" /\ last.ret = NULL
  /\ Present(heap, T, last.key)
  /\ SymTable_contains(heap, T, last.key) = 1
  /\ \E k \in Keys : SymTable_get(heap, T, k) # NULL

----------------------------------------------------------------------------
(* C18 *)

\* the bucket array of t has SIZES[bucketCountOrder] slots; every chain
\* ends at NULL and holds allocated Bindings only, each in the slot that is
\* the hash of its key modulo that capacity; no Binding is at two places
\* of the chains; and every Binding block is in a chain
WellFormed(h, t) ==
  LET all == ChainsFrom(h, t, 0)
  IN  /\ Slots(h, t) = SizeAt(Order(h, t))
      /\ \A i \in 0..(Slots(h, t) - 1) :
           LET c == ChainAt(h, t, i)
           IN  /\ Len(c) <= Cardinality(DOMAIN h.binds)
               /\ \A n \in DOMAIN c :
                    /\ c[n] \in DOMAIN h.binds
                    /\ h.binds[c[n]].Key \in DOMAIN h.strs
                    /\ HashOf(KeyOf(h, c[n]), SizeAt(Order(h, t)),
                              charSigned) = i
      /\ \A x, y \in DOMAIN all : x # y => all[x] # all[y]
      /\ Range(all) = DOMAIN h.binds

\* C18: between the calls the store is well formed (the array has the
\* slots of its tier, every Binding is at one place of the one chain its
\* key hashes to under the current capacity, every chain is acyclic), and
\* an expansion of any reachable store below the last tier whose
\* allocations succeed gives a well formed store one tier up, every
\* Binding in the slot of its key under the new capacity.
C18_WellFormed ==
  Live =>
    /\ WellFormed(heap, T)
    /\ ~ExpandAtMax(heap, T) =>
         LET e == SymTable_expand(heap, T, 0, 0)
         IN  /\ e.outcome = "ok"
             /\ Order(e.heap, T) = Order(heap, T) + 1
             /\ WellFormed(e.heap, T)
             /\ Cardinality(DOMAIN e.heap.binds)
                  = Cardinality(DOMAIN heap.binds)

\* a put has just expanded the table, which holds three Bindings in its
\* two buckets
W_C18 ==
  /\ Live
  /\ last.op = "put" /\ last.expand = "ok"
  /\ Order(heap, T) = 1 /\ Slots(heap, T) = 2
  /\ Size(heap, T) = 3
  /\ \A i \in 0..1 : Len(ChainAt(heap, T, i)) >= 1

----------------------------------------------------------------------------
(* C19 *)

\* the element count is at least the number of slots and the tier is not
\* the last
ExpansionDue(h, t) ==
  /\ Size(h, t) >= Slots(h, t)
  /\ Order(h, t) < Len(SIZES) - 1

\* C19: in every reachable store a put of an absent key whose Binding and
\* key copy are allocated allocates for an expansion if and only if the
\* element count is at least the capacity and the tier is not the last;
\* the expansion advances the tier by exactly one when its allocations
\* succeed; when one fails the tier stays, an expansion is still due, and
\* the very next put of an absent key attempts it again and, its
\* allocations succeeding, advances the tier by exactly one.
C19_Retry ==
  Live =>
    /\ \A pcKey \in Keys, pvValue \in Values,
          failAt \in 0..MaxAllocs(heap, T) :
         (~Present(heap, T, pcKey) /\ failAt \notin {1, 2}) =>
           LET r == SymTable_put(heap, T, pcKey, pvValue, failAt)
           IN  /\ r.alloc = "ok"
               /\ r.expand \in {"ok", "nomem"} <=> ExpansionDue(heap, T)
               /\ r.expand = "ok" <=> (ExpansionDue(heap, T) /\ failAt = 0)
               /\ r.expand = "ok" => Order(r.heap, T) = Order(heap, T) + 1
               /\ r.expand # "ok" => Order(r.heap, T) = Order(heap, T)
               /\ r.expand = "nomem" =>
                    /\ ExpansionDue(r.heap, T)
                    /\ \A k2 \in Keys, v2 \in Values :
                         ~Present(r.heap, T, k2) =>
                           LET r2 == SymTable_put(r.heap, T, k2, v2, 0)
                           IN  /\ r2.ret = 1
                               /\ r2.expand = "ok"
                               /\ Order(r2.heap, T) = Order(heap, T) + 1
    /\ (last.op = "put" /\ last.expand = "nomem") => ExpansionDue(heap, T)

\* the expansion of a put has just failed for lack of memory, and the put
\* of the key that is still absent expands the table
W_C19 ==
  /\ Live
  /\ last.op = "put" /\ last.ret = 1 /\ last.expand = "nomem"
  /\ Size(heap, T) = 2 /\ Order(heap, T) = 0
  /\ \E k2 \in Keys :
       /\ ~Present(heap, T, k2)
       /\ LET r2 == SymTable_put(heap, T, k2, 1, 0)
          IN  r2.expand = "ok" /\ Order(r2.heap, T) = 1

----------------------------------------------------------------------------
(* C20 *)

\* the chain c without the Binding p
Without(c, p) == SelectSeq(c, LAMBDA x : x # p)

\* in every reachable store the remove of a key k it holds, wherever the
\* Binding of k is in its chain, takes that Binding out of its chain and
\* leaves the others of the chain in their order, the other chains, and
\* the key, the value and the key copy of every other Binding, so that get
\* and contains of every other key return what they returned
C20_Each ==
  Live =>
    \A pcKey \in Keys :
      Present(heap, T, pcKey) =>
        LET r == SymTable_remove(heap, T, pcKey)
            b == BindingOf(heap, pcKey)
        IN  /\ \A i \in 0..(Slots(heap, T) - 1) :
                 ChainAt(r.heap, T, i) = Without(ChainAt(heap, T, i), b)
            /\ \A p \in DOMAIN heap.binds \ {b} :
                 /\ p \in DOMAIN r.heap.binds
                 /\ r.heap.binds[p].Key = heap.binds[p].Key
                 /\ r.heap.binds[p].Value = heap.binds[p].Value
                 /\ KeyOf(r.heap, p) = KeyOf(heap, p)
            /\ \A k2 \in Keys \ {pcKey} :
                 /\ SymTable_get(r.heap, T, k2) = SymTable_get(heap, T, k2)
                 /\ SymTable_contains(r.heap, T, k2)
                      = SymTable_contains(heap, T, k2)

\* a remove leaves what get and contains return for every other key, and
\* a remove of a key the store does not hold leaves the heap
C20_Step ==
  last'.op = "remove" =>
    /\ \A k2 \in Keys \ {last'.key} :
         /\ SymTable_get(heap', T, k2) = SymTable_get(heap, T, k2)
         /\ SymTable_contains(heap', T, k2) = SymTable_contains(heap, T, k2)
    /\ ~Present(heap, T, last'.key) => (last'.ret = NULL /\ heap' = heap)

\* C20: remove(k) changes what get and contains return for no key other
\* than k, whether the Binding of k is the first, an inner or the last one
\* of its chain, keys in the bucket of k included; remove of an absent key
\* changes nothing.
C20_RemoveFrame == []C20_Each /\ [][C20_Step]_vars

\* a chain of three Bindings whose inner one remove takes out, returning
\* its value: the first and the last stay linked and get returns their
\* values
W_C20 ==
  /\ Live
  /\ Order(heap, T) = 0 /\ Size(heap, T) = 3
  /\ Len(ChainAt(heap, T, 0)) = 3
  /\ LET c == ChainAt(heap, T, 0)
         r == SymTable_remove(heap, T, KeyOf(heap, c[2]))
     IN  /\ r.ret = heap.binds[c[2]].Value /\ r.ret # NULL
         /\ ChainAt(r.heap, T, 0) = <<c[1], c[3]>>
         /\ SymTable_get(r.heap, T, KeyOf(heap, c[1])) = heap.binds[c[1]].Value
         /\ SymTable_get(r.heap, T, KeyOf(heap, c[3])) = heap.binds[c[3]].Value
         /\ SymTable_contains(r.heap, T, KeyOf(heap, c[2])) = 0

----------------------------------------------------------------------------
(* C21 *)

\* the pointers of the blocks of h: the array pointer of the store record,
\* the slots of the arrays, and the key and link pointers of the Bindings
\* each point to an allocated block of their kind (or, slots and links, are
\* NULL)
NoDangling(h) ==
  /\ \A t \in DOMAIN h.tabs : h.tabs[t].Bindings \in DOMAIN h.arrs
  /\ \A b \in DOMAIN h.arrs : \A i \in DOMAIN h.arrs[b] :
       h.arrs[b][i] \in DOMAIN h.binds \cup {NULL}
  /\ \A p \in DOMAIN h.binds :
       /\ h.binds[p].Key \in DOMAIN h.strs
       /\ h.binds[p].psNextBinding \in DOMAIN h.binds \cup {NULL}

\* what is allocated in h is what the store t owns and nothing else: its
\* record, the one array the record points to, the Bindings linked in the
\* chains of the array, as many as the element count, and one key copy for
\* each of them, no two Bindings sharing one; no free was given a block
\* that is not allocated; and no pointer of these blocks points to a freed
\* block
Outstanding(h, t) ==
  /\ ~h.fault
  /\ NoDangling(h)
  /\ DOMAIN h.tabs = {t}
  /\ DOMAIN h.arrs = {h.tabs[t].Bindings}
  /\ DOMAIN h.binds = Linked(h, t)
  /\ Cardinality(DOMAIN h.binds) = Size(h, t)
  /\ DOMAIN h.strs = {h.binds[p].Key : p \in DOMAIN h.binds}
  /\ \A p, q \in DOMAIN h.binds : p # q => h.binds[p].Key # h.binds[q].Key
  /\ Cardinality(DOMAIN h.strs) = Size(h, t)
  /\ Cardinality(Used(h)) = 2 + 2 * Size(h, t)

\* C21: in every state of a live store the blocks allocated are exactly
\* the store record, one bucket array, and one Binding and one key copy
\* for each element (2 + 2 * element count blocks), no free has been given
\* a block that is not allocated and no pointer of the store points to a
\* freed block; and the same holds of the heap every put (whichever of its
\* allocations fails, those of the rehash included, or none) and every
\* remove returns, with the block count going up by 2 exactly when put
\* returns 1 and the Binding removed and its key copy, and no other block,
\* freed by remove; a destroy frees every block once and leaves none.
C21_Outstanding ==
  Live =>
    /\ Outstanding(heap, T)
    /\ \A pcKey \in Keys, pvValue \in Values,
          failAt \in 0..MaxAllocs(heap, T) :
         LET r == SymTable_put(heap, T, pcKey, pvValue, failAt)
         IN  /\ Outstanding(r.heap, T)
             /\ Cardinality(Used(r.heap))
                  = Cardinality(Used(heap)) + 2 * r.ret
             /\ r.expand = "ok" =>
                  /\ r.heap.tabs[T].Bindings
                       \notin (DOMAIN r.heap.binds \cup DOMAIN r.heap.strs)
                  /\ Slots(r.heap, T) = SizeAt(Order(heap, T) + 1)
             /\ r.expand = "nomem" =>
                  r.heap.tabs[T].Bindings = heap.tabs[T].Bindings
    /\ \A pcKey \in Keys :
         LET r == SymTable_remove(heap, T, pcKey)
         IN  /\ Outstanding(r.heap, T)
             /\ Present(heap, T, pcKey) =>
                  LET p == BindingOf(heap, pcKey)
                  IN  Used(r.heap) = Used(heap) \ {p, heap.binds[p].Key}
             /\ ~Present(heap, T, pcKey) => Used(r.heap) = Used(heap)
    /\ LET h == SymTable_free(heap, T)
       IN  Used(h) = {} /\ ~h.fault

\* a put has just rehashed a table of two Bindings (a table an earlier
\* rehash that failed left at the first tier) into the second tier: eight
\* blocks are allocated, a remove of one of the three keys leaves six and
\* a destroy none
W_C21 ==
  /\ Live
  /\ last.op = "put" /\ last.ret = 1 /\ last.expand = "ok"
  /\ Order(heap, T) = 1 /\ Size(heap, T) = 3
  /\ Cardinality(Used(heap)) = 8
  /\ Cardinality(Used(SymTable_remove(heap, T, last.key).heap)) = 6
  /\ Used(SymTable_free(heap, T)) = {}

----------------------------------------------------------------------------
(* C22 *)

\* C22: in the behaviours in which no allocation of an expansion fails,
\* in every state of a live store the element count is at most the number
\* of buckets of the current tier, which is the number of slots of the
\* array, or the tier is the last one; and no put of such a behaviour
\* reports an expansion that failed.
C22_LoadBound ==
  /\ last.expand # "nomem"
  /\ Live =>
       /\ Slots(heap, T) = SizeAt(Order(heap, T))
       /\ \/ Size(heap, T) <= SizeAt(Order(heap, T))
          \/ Order(heap, T) = Len(SIZES) - 1

\* a put has just expanded the table to the last tier, where the element
\* count equals the capacity; before it the count was the capacity of the
\* first tier; and one more put, which cannot expand, takes the count
\* above the capacity
W_C22 ==
  /\ Live
  /\ last.op = "put" /\ last.ret = 1 /\ last.expand = "ok"
  /\ Order(heap, T) = 1 /\ Size(heap, T) = 2 /\ Slots(heap, T) = 2
  /\ \E k2 \in Keys :
       /\ ~Present(heap, T, k2)
       /\ LET r2 == SymTable_put(heap, T, k2, 1, 0)
          IN  /\ r2.ret = 1 /\ r2.expand = "max"
              /\ Size(r2.heap, T) = 3 /\ Slots(r2.heap, T) = 2

----------------------------------------------------------------------------
(* C23 *)

(* The reference algorithm, computed apart from SymTable_hash: an unsigned *)
(* word is four base-65536 limbs, least significant first, and the product *)
(* h * 65599 is h * 65536 (the limbs moved up by one, the top one lost)    *)
(* plus h * 63.                                                            *)

\* the word 0
RefZero == <<0, 0, 0, 0>>

\* the word a byte contributes: its raw value b; or, where the byte is a
\* negative char converted to the unsigned word, b - 256 wrapped at the
\* width of the word
RefByte(b, extended) ==
  IF extended /\ b >= 128 THEN <<65280 + b, 65535, 65535, 65535>>
  ELSE <<b, 0, 0, 0>>

RECURSIVE RefLimbs(_, _, _, _)
\* the limbs i .. 4 of h * 65599 + c, the carry out of the top limb dropped
RefLimbs(h, c, i, carry) ==
  IF i > 4 THEN <<>>
  ELSE LET t == (IF i = 1 THEN 0 ELSE h[i - 1]) + 63 * h[i] + c[i] + carry
       IN  <<t % 65536>> \o RefLimbs(h, c, i + 1, t \div 65536)

RECURSIVE RefFold(_, _, _, _)
\* h after the bytes i .. of the key up to its terminator
RefFold(key, i, h, extended) ==
  IF key[i] = 0 THEN h
  ELSE RefFold(key, i + 1, RefLimbs(h, RefByte(key[i], extended), 1, 0),
               extended)

\* h mod n, for n up to 65536
RefMod(h, n) ==
  LET Up(r, limb) == ((((r * 256) % n) * 256) + limb) % n
  IN  Up(Up(Up(Up(0, h[4]), h[3]), h[2]), h[1])

\* the reference hash of key for the capacity n
RefHash(key, n, extended) == RefMod(RefFold(key, 1, RefZero, extended), n)

\* whether a byte of the key before its terminator is above 0x7f
HasHighByte(key) == \E i \in 1..strlen(key) : key[i] >= 128

\* the result is below the capacity and is the result for every char
\* array that holds the same string
InRangeAndSame ==
  /\ last.ret \in 0..(last.value - 1)
  /\ \A other \in HashKeys :
       strcmp(other, last.key) = 0 =>
         SymTable_hash(other, last.value) = last.ret

\* every call of the hash helper returns the reference hash with each byte
\* contributing its raw byte value, for every key and capacity
C23_RawBytes ==
  last.op = "hash" =>
    /\ last.ret = RefHash(last.key, last.value, FALSE)
    /\ InRangeAndSame

\* C23: for every key and every capacity greater than 0 the hash helper
\* returns h mod capacity, where h starts from 0 and is set, for each byte
\* of the key in order up to the terminator, to h * 65599 + byte with
\* wraparound at the width of the unsigned word; a byte contributes its
\* value as a char converted to the unsigned word, which is its raw byte
\* value for a byte up to 0x7f and on a build whose char is unsigned, and
\* its raw byte value minus 256, wrapped at the width of the word, for a
\* byte above 0x7f on a build whose char is signed; the result is in
\* 0 .. capacity - 1 and is the same for equal keys and equal capacity.
C23_Hash ==
  last.op = "hash" =>
    /\ last.ret = RefHash(last.key, last.value, charSigned)
    /\ (~charSigned \/ ~HasHighByte(last.key)) =>
         last.ret = RefHash(last.key, last.value, FALSE)
    /\ InRangeAndSame

\* on a build whose char is signed the helper has just hashed the key of
\* the bytes 0xc9 0x61 for 509 buckets and returned 246, where the raw
\* bytes give 360; the key of six letters, whose product passes the width
\* of the word, hashes to 201
W_C23 ==
  /\ charSigned
  /\ last.op = "hash"
  /\ last.key = <<201, 97, 0>> /\ last.value = 509
  /\ last.ret = 246
  /\ RefHash(last.key, last.value, FALSE) = 360
  /\ SymTable_hash(<<97, 98, 99, 100, 101, 102, 0>>, 509) = 201

====
